---- MODULE Spec2Model ----
(***************************************************************************)
(* Smart Public Complaint Box: the classification-and-routing pipeline.    *)
(*                                                                         *)
(*   complaint_classifier.py  preprocess_text, predict, predict_priority   *)
(*   database.py              the schema and seed_data                     *)
(*   complaint_service.py     submit_complaint, update_complaint_status    *)
(*                                                                         *)
(* A text is a sequence of characters.  A character is a one-letter string *)
(* for ASCII and a code-point name ("U+212A") for the others.              *)
(***************************************************************************)
EXTENDS Integers, Sequences, FiniteSets, TLC

VARIABLES
    text,        \* SpecText: the text handed to the classifier's pure functions
    norm,        \* SpecText: <<preprocess_text(text)>> once called, <<>> before
    renorm,      \* SpecText: <<preprocess_text(norm)>> once called, <<>> before
    prio,        \* SpecText: <<predict_priority(text, c)>> once called, <<>> before
    categories,  \* table categories: row i is the name of category_id i
    departments, \* table departments: row i is department_id i
    complaints,  \* table complaints: row i is complaint_id i
    assignments, \* table assignments: row i is assignment_id i
    now,         \* the clock CURRENT_TIMESTAMP reads
    pipeline,    \* ComplaintClassifier.pipeline: <<>> (None) or <<fitted model>>
    ret,         \* what the last service call returned
    calls,       \* how many operations have been invoked so far
    model_file,  \* the file at model_path: absent, partly written or a pickled model
    train_pc,    \* SpecModel: where the running ComplaintClassifier.train is
    svc,         \* how far ComplaintService.__init__ has come
    posterior,   \* SpecPredict: the fitted model's class scores for each text
    answers,     \* SpecPredict: what predict returned first, for each text
    th,          \* SpecConc: the two threads inside submit_complaint
    y_pred,      \* SpecEvaluate: train's predictions for the held-out examples
    cm           \* SpecEvaluate: train's confusion table, <<>> before it is made

textVars == <<text, norm, renorm, prio>>

serviceVars == <<categories, departments, complaints, assignments, now, pipeline, ret, calls>>

dbVars == <<categories, departments, complaints, assignments, now, calls>>

lifecycleVars == <<model_file, train_pc, svc>>

predictVars == <<posterior, answers>>

evalVars == <<y_pred, cm>>

vars == <<text, norm, renorm, prio,
          categories, departments, complaints, assignments, now, pipeline, ret, calls,
          model_file, train_pc, svc, posterior, answers, th, y_pred, cm>>

(***************************************************************************)
(* Characters and Python's str.lower, re.sub, str.split and str.join.     *)
(***************************************************************************)
Lower ==
    <<"a","b","c","d","e","f","g","h","i","j","k","l","m",
      "n","o","p","q","r","s","t","u","v","w","x","y","z">>

Upper ==
    <<"A","B","C","D","E","F","G","H","I","J","K","L","M",
      "N","O","P","Q","R","S","T","U","V","W","X","Y","Z">>

AsciiLower == {Lower[i] : i \in 1..26}

AsciiUpper == {Upper[i] : i \in 1..26}

\* str.isspace / the regex class \s: space, tab, line feed
Whitespace == {" ", "TAB", "LF"}

\* str.lower of one character: a string of one or two characters.
\* U+212A KELVIN SIGN lowercases to ASCII "k"; U+0130 (capital I with dot
\* above) lowercases to "i" followed by U+0307 (combining dot above).
lower_char(c) ==
    IF c \in AsciiUpper
        THEN <<Lower[CHOOSE i \in 1..26 : Upper[i] = c]>>
    ELSE IF c = "U+212A" THEN <<"k">>
    ELSE IF c = "U+0130" THEN <<"i", "U+0307">>
    ELSE <<c>>

RECURSIVE str_lower(_)
str_lower(s) ==
    IF s = <<>> THEN <<>> ELSE lower_char(Head(s)) \o str_lower(Tail(s))

\* re.sub(r'[^a-zA-Z\s]', '', s): every character outside the class is
\* deleted, nothing is put in its place.
re_sub_non_letters(s) ==
    SelectSeq(s, LAMBDA c : c \in AsciiLower \cup AsciiUpper \cup Whitespace)

\* str.split() with no argument: the maximal runs of non-whitespace
\* characters, in order.  cur is the run being read.
RECURSIVE split_from(_, _)
split_from(s, cur) ==
    IF s = <<>>
        THEN (IF cur = <<>> THEN <<>> ELSE <<cur>>)
    ELSE IF Head(s) \in Whitespace
        THEN (IF cur = <<>> THEN <<>> ELSE <<cur>>) \o split_from(Tail(s), <<>>)
    ELSE split_from(Tail(s), Append(cur, Head(s)))

str_split(s) == split_from(s, <<>>)

\* ' '.join(words)
RECURSIVE str_join(_)
str_join(words) ==
    IF words = <<>> THEN <<>>
    ELSE IF Len(words) = 1 THEN Head(words)
    ELSE Head(words) \o <<" ">> \o str_join(Tail(words))

\* Python's `sub in s` on strings
str_in(sub, s) ==
    \E i \in 1..(Len(s) - Len(sub) + 1) : SubSeq(s, i, i + Len(sub) - 1) = sub

(***************************************************************************)
(* ComplaintClassifier.preprocess_text                                     *)
(***************************************************************************)
\* re.sub with ' ' as the replacement
re_sub_space(s) ==
    [i \in 1..Len(s) |->
        IF s[i] \in AsciiLower \cup AsciiUpper \cup Whitespace THEN s[i] ELSE " "]

\* the whitespace collapsed before the symbols are removed
preprocess_text_collapse_first(t) ==
    re_sub_non_letters(str_join(str_split(str_lower(t))))

\* the symbols replaced by a space instead of deleted
preprocess_text_space_for_symbol(t) ==
    str_join(str_split(re_sub_space(str_lower(t))))

preprocess_text(t) ==
    str_join(str_split(re_sub_non_letters(str_lower(t))))

(***************************************************************************)
(* ComplaintClassifier.predict_priority                                    *)
(***************************************************************************)
high_priority_keywords ==
    << <<"u","r","g","e","n","t">>,
       <<"e","m","e","r","g","e","n","c","y">>,
       <<"d","a","n","g","e","r","o","u","s">>,
       <<"a","c","c","i","d","e","n","t">>,
       <<"h","e","a","l","t","h">>,
       <<"d","e","a","t","h">>,
       <<"f","i","r","e">>,
       <<"f","l","o","o","d">>,
       <<"b","u","r","s","t">>,
       <<"l","e","a","k","i","n","g">>,
       <<"e","x","p","o","s","e","d">>,
       <<"f","a","l","l","e","n">>,
       <<"b","r","o","k","e","n">>,
       <<"d","a","m","a","g","e","d">>,
       <<"c","o","n","t","a","m","i","n","a","t","e","d">>,
       <<"o","v","e","r","f","l","o","w">> >>

medium_priority_keywords ==
    << <<"i","r","r","e","g","u","l","a","r">>,
       <<"f","r","e","q","u","e","n","t">>,
       <<"p","o","o","r">>,
       <<"n","e","e","d">>,
       <<"r","e","q","u","i","r","e","d">>,
       <<"n","o","t"," ","w","o","r","k","i","n","g">>,
       <<"p","r","o","b","l","e","m">>,
       <<"i","s","s","u","e">>  >>

\* `for keyword in keywords: if keyword in text: return ...`, from keyword i on:
\* TRUE when the loop returns, FALSE when it runs to its end.
RECURSIVE scan_keywords(_, _, _)
scan_keywords(keywords, i, t) ==
    IF i > Len(keywords) THEN FALSE
    ELSE IF str_in(keywords[i], t) THEN TRUE
    ELSE scan_keywords(keywords, i + 1, t)

predict_priority_medium_first(complaint_text, category) ==
    LET text_lower == str_lower(complaint_text) IN
    IF scan_keywords(medium_priority_keywords, 1, text_lower) THEN "Medium"
    ELSE IF scan_keywords(high_priority_keywords, 1, text_lower) THEN "High"
    ELSE "Low"

\* a complaint about electricity never given less than Medium
predict_priority_category_floor(complaint_text, category) ==
    LET text_lower == str_lower(complaint_text) IN
    IF scan_keywords(high_priority_keywords, 1, text_lower) THEN "High"
    ELSE IF scan_keywords(medium_priority_keywords, 1, text_lower) THEN "Medium"
    ELSE IF category = "Electricity" THEN "Medium"
    ELSE "Low"

predict_priority(complaint_text, category) ==
    LET text_lower == str_lower(complaint_text) IN
    IF scan_keywords(high_priority_keywords, 1, text_lower) THEN "High"
    ELSE IF scan_keywords(medium_priority_keywords, 1, text_lower) THEN "Medium"
    ELSE "Low"

\* ComplaintClassifier.categories, in its order
categories_list ==
    <<"Water Supply", "Road Maintenance", "Electricity", "Sanitation", "Other">>

CategoryNames == {categories_list[i] : i \in 1..Len(categories_list)}

(***************************************************************************)
(* SpecText: the pure text functions applied to bounded inputs.            *)
(***************************************************************************)
MaxPieces == 3

\* What an input text is put together from: keywords in mixed case, the two
\* halves of the two-word keyword, whitespace, a digit, a punctuation mark
\* and the two non-ASCII characters whose lowercase is an ASCII letter.
Pieces ==
    { <<"U","r","g","e","n","t">>,
      <<"p","o","o","r">>,
      <<"N","o","t">>,
      <<"w","o","r">>,
      <<"k","i","n","g">>,
      <<"U+212A">>,
      <<"U+0130">>,
      <<" ">>,
      <<"TAB">>,
      <<"1">>,
      <<"!">> }

RECURSIVE TextsOf(_)
TextsOf(n) ==
    IF n = 0 THEN {<<>>}
    ELSE LET shorter == TextsOf(n - 1) IN
         shorter \cup {t \o p : t \in shorter, p \in Pieces}

TextInputs == TextsOf(MaxPieces)


(***************************************************************************)
(* Database: the tables after initialize_schema, and seed_data.            *)
(* A table is the sequence of its rows, row i having the AUTOINCREMENT key *)
(* i; no operation of the system deletes a row.  A nullable column holds   *)
(* <<>> for NULL and <<v>> for the value v.  The columns user_id, title    *)
(* and location of a complaint are stored as given and take part in no     *)
(* decision; the row keeps description in their place.                     *)
(***************************************************************************)
\* how many operations one run of the model invokes
MaxCalls == 4

\* seed_data's categories list: the names, in order
seed_categories ==
    <<"Water Supply", "Road Maintenance", "Electricity", "Sanitation", "Other">>

\* seed_data's departments list: (name, category_id)
seed_departments ==
    << [name |-> "Water Department",        category_id |-> <<1>>],
       [name |-> "Public Works Department", category_id |-> <<2>>],
       [name |-> "Electricity Board",       category_id |-> <<3>>],
       [name |-> "Sanitation Department",   category_id |-> <<4>>],
       [name |-> "General Administration",  category_id |-> <<5>>] >>

\* INSERT INTO categories, one name after the other; name is UNIQUE, and the
\* IntegrityError of a name already there is passed over.
RECURSIVE insert_categories(_, _)
insert_categories(table, names) ==
    IF names = <<>> THEN table
    ELSE IF \E i \in 1..Len(table) : table[i] = Head(names)
        THEN insert_categories(table, Tail(names))
    ELSE insert_categories(Append(table, Head(names)), Tail(names))

\* Database.seed_data
seed_data ==
    /\ categories' = insert_categories(categories, seed_categories)
    /\ departments' = departments \o seed_departments
    /\ UNCHANGED <<complaints, assignments, now, pipeline, ret>>

\* SELECT category_id FROM categories WHERE name = ?  (rows in key order)
select_category_ids(name) ==
    SelectSeq([i \in 1..Len(categories) |-> i], LAMBDA i : categories[i] = name)

\* every department, the WHERE clause left out
select_department_ids_no_where(category_id) ==
    [i \in 1..Len(departments) |-> i]

\* SELECT department_id FROM departments WHERE category_id = ?  (rows in key order)
select_department_ids(category_id) ==
    SelectSeq([i \in 1..Len(departments) |-> i],
              LAMBDA i : departments[i].category_id = <<category_id>>)

(***************************************************************************)
(* ComplaintClassifier.predict: the fitted pipeline is a function from the *)
(* preprocessed text to one of the labels it was trained on.               *)
(***************************************************************************)
\* one label of the corpus spelt unlike the category
training_labels_misspelt ==
    {"Water", "Road Maintenance", "Electricity", "Sanitation", "Other"}

\* the labels create_training_data attaches to the corpus
training_labels ==
    {"Water Supply", "Road Maintenance", "Electricity", "Sanitation", "Other"}

\* The descriptions citizens submit: one with a high-list keyword, one with
\* the two-word medium-list keyword, and the same with two spaces, which
\* holds no keyword and has the same preprocessed text.
Descriptions ==
    { <<"P","i","p","e"," ","b","u","r","s","t","!">>,
      <<"N","o","t"," ","w","o","r","k","i","n","g">>,
      <<"N","o","t"," "," ","w","o","r","k","i","n","g">> }

FittedModels == [{preprocess_text(d) : d \in Descriptions} -> training_labels]

predict(complaint_text) == pipeline[1][preprocess_text(complaint_text)]

(***************************************************************************)
(* ComplaintService                                                        *)
(***************************************************************************)
\* the lifecycle states the specification names; the code holds no list of
\* them, only the default 'Submitted' of the status column
Lifecycle == {"Submitted", "In Progress", "Resolved", "Rejected"}

\* what a caller may pass as new_status: any string
StatusArgs == Lifecycle \cup {"Closed"}

\* the row with status Pending in place of Submitted
complaint_row_pending(description, category_id, priority) ==
    [ description |-> description,
      category_id |-> category_id,
      priority    |-> priority,
      status      |-> "Pending",
      created_at  |-> now,
      updated_at  |-> now ]

\* the row with priority left to the column's default, 'Medium'
complaint_row_default_priority(description, category_id, priority) ==
    [ description |-> description,
      category_id |-> category_id,
      priority    |-> "Medium",
      status      |-> "Submitted",
      created_at  |-> now,
      updated_at  |-> now ]

\* INSERT INTO complaints (...) VALUES (..., 'Submitted'); created_at and
\* updated_at take their default, CURRENT_TIMESTAMP.
complaint_row(description, category_id, priority) ==
    [ description |-> description,
      category_id |-> category_id,
      priority    |-> priority,
      status      |-> "Submitted",
      created_at  |-> now,
      updated_at  |-> now ]

\* the category "Other" (key 5) stored when no row is found
stored_category_id_other_fallback(found) ==
    IF found = <<>> THEN <<5>> ELSE <<found[1]>>

\* `if not categories: category_id = None / else: categories[0]['category_id']`
stored_category_id(found) ==
    IF found = <<>> THEN <<>> ELSE <<found[1]>>

\* every department of the category assigned
assigned_departments_all(category_id) ==
    IF category_id = <<>> THEN <<>> ELSE select_department_ids(category_id[1])

\* `if category_id:` ... `if departments: dept_id = departments[0][...]`:
\* the departments the complaint is assigned to, none or the first one found
assigned_departments(category_id) ==
    IF category_id = <<>> THEN <<>>
    ELSE LET depts == select_department_ids(category_id[1]) IN
         IF depts = <<>> THEN <<>> ELSE <<depts[1]>>

\* a submission refused, and nothing stored, when no categories row has the
\* predicted name
submit_complaint_require_category(description) ==
    /\ pipeline # <<>>
    /\ LET category_name == predict(description)
           priority      == predict_priority(description, category_name)
           found         == select_category_ids(category_name)
           complaint_id  == Len(complaints) + 1
           depts         == assigned_departments(stored_category_id(found))
       IN IF found = <<>>
              THEN /\ ret' = [ op       |-> "submit_complaint",
                               category |-> category_name,
                               raised   |-> "UnknownCategoryError" ]
                   /\ UNCHANGED <<complaints, assignments>>
          ELSE /\ complaints' =
                     Append(complaints,
                            complaint_row(description, stored_category_id(found), priority))
               /\ assignments' =
                     assignments \o
                     [i \in 1..Len(depts) |-> [ complaint_id  |-> complaint_id,
                                                department_id |-> depts[i],
                                                assigned_at   |-> now ]]
               /\ ret' = [ op           |-> "submit_complaint",
                           complaint_id |-> complaint_id,
                           category     |-> category_name,
                           priority     |-> priority,
                           status       |-> "Submitted" ]
    /\ UNCHANGED <<categories, departments, now, pipeline>>

\* ComplaintService.submit_complaint
submit_complaint(description) ==
    /\ pipeline # <<>>
    /\ LET category_name == predict(description)
           priority      == predict_priority(description, category_name)
           category_id   == stored_category_id(select_category_ids(category_name))
           complaint_id  == Len(complaints) + 1
           depts         == assigned_departments(category_id)
       IN /\ complaints' =
                Append(complaints, complaint_row(description, category_id, priority))
          /\ assignments' =
                assignments \o
                [i \in 1..Len(depts) |-> [ complaint_id  |-> complaint_id,
                                           department_id |-> depts[i],
                                           assigned_at   |-> now ]]
          /\ ret' = [ op           |-> "submit_complaint",
                      complaint_id |-> complaint_id,
                      category     |-> category_name,
                      priority     |-> priority,
                      status       |-> "Submitted" ]
    /\ UNCHANGED <<categories, departments, now, pipeline>>

\* a complaint that is Resolved or Rejected left as it is
updated_row_terminal_guard(row, new_status) ==
    IF row.status \in {"Resolved", "Rejected"} THEN row
    ELSE [row EXCEPT !.status = new_status, !.updated_at = now]

\* updated_at not set
updated_row_keep_timestamp(row, new_status) ==
    [row EXCEPT !.status = new_status]

\* the category looked up again on every update
updated_row_reclassify(row, new_status) ==
    [row EXCEPT !.status = new_status,
                !.updated_at = now,
                !.category_id =
                    stored_category_id(select_category_ids(predict(row.description)))]

\* UPDATE complaints SET status = ?, updated_at = CURRENT_TIMESTAMP
updated_row(row, new_status) ==
    [row EXCEPT !.status = new_status, !.updated_at = now]

\* False returned when the UPDATE matched no row
update_complaint_status_rowcount(complaint_id, new_status) ==
    /\ complaints' =
          IF complaint_id \in 1..Len(complaints)
              THEN [complaints EXCEPT
                       ![complaint_id] = updated_row(complaints[complaint_id], new_status)]
          ELSE complaints
    /\ ret' = [op |-> "update_complaint_status", value |-> complaint_id \in 1..Len(complaints)]
    /\ UNCHANGED <<categories, departments, assignments, now, pipeline>>

\* ComplaintService.update_complaint_status: the UPDATE changes the row whose
\* key is complaint_id, if there is one, and the call returns True.
update_complaint_status(complaint_id, new_status) ==
    /\ complaints' =
          IF complaint_id \in 1..Len(complaints)
              THEN [complaints EXCEPT
                       ![complaint_id] = updated_row(complaints[complaint_id], new_status)]
          ELSE complaints
    /\ ret' = [op |-> "update_complaint_status", value |-> TRUE]
    /\ UNCHANGED <<categories, departments, assignments, now, pipeline>>

\* ComplaintService.get_complaint_details: the complaint LEFT JOINed with its
\* category's name; None when there is no such complaint.
get_complaint_details(complaint_id) ==
    /\ ret' =
          IF complaint_id \in 1..Len(complaints)
              THEN LET c == complaints[complaint_id] IN
                   [ op           |-> "get_complaint_details",
                     complaint_id |-> complaint_id,
                     category     |-> IF c.category_id = <<>> THEN <<>>
                                      ELSE <<categories[c.category_id[1]]>>,
                     priority     |-> c.priority,
                     status       |-> c.status ]
          ELSE [op |-> "get_complaint_details", value |-> <<>>]
    /\ UNCHANGED <<categories, departments, complaints, assignments, now, pipeline>>

\* a clock that moves every complaint still Submitted to In Progress
Tick_escalating ==
    /\ now' = now + 1
    /\ complaints' =
          [i \in 1..Len(complaints) |->
              IF complaints[i].status = "Submitted"
                  THEN [complaints[i] EXCEPT !.status = "In Progress"]
              ELSE complaints[i]]
    /\ UNCHANGED <<categories, departments, assignments, pipeline, ret>>

\* a second of the clock passes
Tick ==
    /\ now' = now + 1
    /\ UNCHANGED <<categories, departments, complaints, assignments, pipeline, ret>>

(***************************************************************************)
(* Spec: the service on a database whose schema is initialized, with the   *)
(* classifier's model trained or loaded by ComplaintService.__init__.      *)
(***************************************************************************)
InitService ==
    /\ categories = <<>>
    /\ departments = <<>>
    /\ complaints = <<>>
    /\ assignments = <<>>
    /\ now = 0
    /\ ret = [op |-> "none"]
    /\ calls = 0

\* no text function under study
InitNoText ==
    /\ text = <<>>
    /\ norm = <<>>
    /\ renorm = <<>>
    /\ prio = <<>>

\* no scores kept, no thread in submit_complaint
InitNoPredict ==
    /\ posterior = <<>>
    /\ answers = <<>>
    /\ th = <<>>

\* train has evaluated nothing
InitNoEval ==
    /\ y_pred = <<>>
    /\ cm = <<>>

\* the file at model_path
NoFile == [bytes |-> "absent", model |-> <<>>]

PartialFile == [bytes |-> "partial", model |-> <<>>]

PickledModel(m) == [bytes |-> "complete", model |-> m]

\* ComplaintService.__init__ has returned: the model was loaded from the file
\* at model_path, or trained and saved to it
InitConstructed ==
    /\ pipeline \in {<<m>> : m \in FittedModels}
    /\ model_file = PickledModel(pipeline[1])
    /\ train_pc = "idle"
    /\ svc \in {"loaded", "trained"}

Init ==
    /\ InitService
    /\ InitConstructed
    /\ svc = "loaded"
    /\ InitNoText
    /\ InitNoEval
    /\ InitNoPredict

Next ==
    \/ /\ calls < MaxCalls
       /\ calls' = calls + 1
       /\ seed_data
       /\ UNCHANGED <<textVars, lifecycleVars, predictVars, evalVars, th>>
    \/ /\ calls < MaxCalls
       /\ calls' = calls + 1
       /\ \E d \in Descriptions : submit_complaint(d)
       /\ UNCHANGED <<textVars, lifecycleVars, predictVars, evalVars, th>>
    \/ /\ calls < MaxCalls
       /\ calls' = calls + 1
       /\ \E id \in 1..(Len(complaints)+1), s \in StatusArgs : update_complaint_status(id, s)
       /\ UNCHANGED <<textVars, lifecycleVars, predictVars, evalVars, th>>
    \/ /\ calls < MaxCalls
       /\ calls' = calls + 1
       /\ \E id \in 1..(Len(complaints)+1) : get_complaint_details(id)
       /\ UNCHANGED <<textVars, lifecycleVars, predictVars, evalVars, th>>
    \/ /\ calls < MaxCalls
       /\ calls' = calls + 1
       /\ Tick
       /\ UNCHANGED <<textVars, lifecycleVars, predictVars, evalVars, th>>

Spec == Init /\ [][Next]_vars

InitText ==
    /\ text \in TextInputs
    /\ norm = <<>>
    /\ renorm = <<>>
    /\ prio = <<>>
    /\ InitService
    /\ pipeline = <<>>
    /\ model_file = NoFile
    /\ train_pc = "idle"
    /\ svc = "none"
    /\ InitNoPredict
    /\ InitNoEval

CallPreprocess ==
    /\ norm = <<>>
    /\ norm' = <<preprocess_text(text)>>
    /\ UNCHANGED <<text, renorm, prio>>
    /\ UNCHANGED <<serviceVars, lifecycleVars, predictVars, evalVars, th>>

CallPreprocessAgain ==
    /\ norm # <<>>
    /\ renorm = <<>>
    /\ renorm' = <<preprocess_text(norm[1])>>
    /\ UNCHANGED <<text, norm, prio>>
    /\ UNCHANGED <<serviceVars, lifecycleVars, predictVars, evalVars, th>>

CallPredictPriority(category) ==
    /\ prio = <<>>
    /\ prio' = <<predict_priority(text, category)>>
    /\ UNCHANGED <<text, norm, renorm>>
    /\ UNCHANGED <<serviceVars, lifecycleVars, predictVars, evalVars, th>>

NextText ==
    \/ CallPreprocess
    \/ CallPreprocessAgain
    \/ \E c \in CategoryNames : CallPredictPriority(c)

SpecText == InitText /\ [][NextText]_vars

(***************************************************************************)
(* SpecFault: Spec on a database whose calls may fail.  A call of          *)
(* execute_query or execute_update that raises sqlite3.Error has changed   *)
(* nothing: the statement is not committed.                                *)
(***************************************************************************)
\* the storage calls of submit_complaint: the category query, the INSERT of
\* the complaint, the department query, the INSERT of the assignment
StorageCalls == 1..4

\* ComplaintService.submit_complaint when its k-th storage call raises: the
\* error leaves the method, which has no handler; the calls before it are
\* committed.  The third call is made when a category was found, the fourth
\* when a department was.
submit_complaint_storage_error(description, k) ==
    /\ pipeline # <<>>
    /\ LET category_name == predict(description)
           priority      == predict_priority(description, category_name)
           category_id   == stored_category_id(select_category_ids(category_name))
           depts         == assigned_departments(category_id)
       IN /\ k = 3 => category_id # <<>>
          /\ k = 4 => depts # <<>>
          /\ complaints' =
                IF k <= 2 THEN complaints
                ELSE Append(complaints, complaint_row(description, category_id, priority))
          /\ ret' = [ op       |-> "submit_complaint",
                      category |-> category_name,
                      raised   |-> "sqlite3.Error" ]
    /\ UNCHANGED <<categories, departments, assignments, now, pipeline>>

\* ComplaintService.update_complaint_status when execute_update raises:
\* `except Exception` prints the error and the method returns False
update_complaint_status_storage_error(complaint_id, new_status) ==
    /\ ret' = [op |-> "update_complaint_status", value |-> FALSE]
    /\ UNCHANGED <<categories, departments, complaints, assignments, now, pipeline>>

NextFault ==
    \/ Next
    \/ /\ calls < MaxCalls
       /\ calls' = calls + 1
       /\ \E d \in Descriptions, k \in StorageCalls : submit_complaint_storage_error(d, k)
       /\ UNCHANGED <<textVars, lifecycleVars, predictVars, evalVars, th>>
    \/ /\ calls < MaxCalls
       /\ calls' = calls + 1
       /\ \E id \in 1..(Len(complaints)+1), s \in StatusArgs :
             update_complaint_status_storage_error(id, s)
       /\ UNCHANGED <<textVars, lifecycleVars, predictVars, evalVars, th>>

SpecFault == Init /\ [][NextFault]_vars

(***************************************************************************)
(* SpecConc: two threads call submit_complaint on one service.  A step is  *)
(* one call of Database.execute_query or execute_update, which opens a     *)
(* connection, runs and commits its statement, reads lastrowid and closes; *)
(* what a thread holds in local variables is in th.  The two calls run     *)
(* within one second of the clock.                                         *)
(***************************************************************************)
Threads == 1..2

\* the tables after seed_data has run n times
SeededCategories(n) == IF n = 0 THEN <<>> ELSE seed_categories

RECURSIVE SeededDepartments(_)
SeededDepartments(n) ==
    IF n = 0 THEN <<>> ELSE SeededDepartments(n - 1) \o seed_departments

\* how many times seed_data has run before the two calls
SeedRuns == 0..2

\* a thread entering submit_complaint(description)
thread_start(description) ==
    [ pc           |-> "category",
      description  |-> description,
      category     |-> <<>>,
      priority     |-> <<>>,
      category_id  |-> <<>>,
      complaint_id |-> <<>>,
      depts        |-> <<>>,
      result       |-> <<>> ]

\* predict, predict_priority and the category query
submit_category_query(t) ==
    /\ th[t].pc = "category"
    /\ LET category_name == predict(th[t].description) IN
       th' = [th EXCEPT
                 ![t].category = <<category_name>>,
                 ![t].priority = <<predict_priority(th[t].description, category_name)>>,
                 ![t].category_id = stored_category_id(select_category_ids(category_name)),
                 ![t].pc = "complaint"]
    /\ UNCHANGED <<complaints, assignments>>

\* the INSERT of the complaint; complaint_id is the lastrowid of the call
submit_insert_complaint(t) ==
    /\ th[t].pc = "complaint"
    /\ complaints' =
          Append(complaints,
                 complaint_row(th[t].description, th[t].category_id, th[t].priority[1]))
    /\ th' = [th EXCEPT
                 ![t].complaint_id = <<Len(complaints) + 1>>,
                 ![t].pc = IF th[t].category_id # <<>> THEN "departments" ELSE "return"]
    /\ UNCHANGED assignments

\* `if category_id:` the department query
submit_department_query(t) ==
    /\ th[t].pc = "departments"
    /\ LET depts == assigned_departments(th[t].category_id) IN
       th' = [th EXCEPT
                 ![t].depts = depts,
                 ![t].pc = IF depts # <<>> THEN "assignment" ELSE "return"]
    /\ UNCHANGED <<complaints, assignments>>

\* the newest complaint of the table taken for the thread's own
assignment_complaint_id_newest(t) == Len(complaints)

\* the complaint_id the thread holds, written into its assignment row
assignment_complaint_id(t) == th[t].complaint_id[1]

\* `if departments:` the INSERT of the assignment
submit_insert_assignment(t) ==
    /\ th[t].pc = "assignment"
    /\ assignments' =
          Append(assignments, [ complaint_id  |-> assignment_complaint_id(t),
                                department_id |-> th[t].depts[1],
                                assigned_at   |-> now ])
    /\ th' = [th EXCEPT ![t].pc = "return"]
    /\ UNCHANGED complaints

\* the dict returned
submit_return(t) ==
    /\ th[t].pc = "return"
    /\ th' = [th EXCEPT
                 ![t].result = << [ complaint_id |-> th[t].complaint_id[1],
                                    category     |-> th[t].category[1],
                                    priority     |-> th[t].priority[1],
                                    status       |-> "Submitted" ] >>,
                 ![t].pc = "done"]
    /\ UNCHANGED <<complaints, assignments>>

InitConc ==
    /\ \E n \in SeedRuns :
          /\ categories = SeededCategories(n)
          /\ departments = SeededDepartments(n)
    /\ complaints = <<>>
    /\ assignments = <<>>
    /\ now = 0
    /\ ret = [op |-> "none"]
    /\ calls = 0
    /\ InitConstructed
    /\ svc = "loaded"
    /\ InitNoText
    /\ InitNoEval
    /\ posterior = <<>>
    /\ answers = <<>>
    /\ th \in [Threads -> {thread_start(d) : d \in Descriptions}]

NextConc ==
    \/ /\ \E t \in Threads : submit_category_query(t)
       /\ UNCHANGED <<textVars, lifecycleVars, predictVars, evalVars>>
       /\ UNCHANGED <<categories, departments, now, pipeline, ret, calls>>
    \/ /\ \E t \in Threads : submit_insert_complaint(t)
       /\ UNCHANGED <<textVars, lifecycleVars, predictVars, evalVars>>
       /\ UNCHANGED <<categories, departments, now, pipeline, ret, calls>>
    \/ /\ \E t \in Threads : submit_department_query(t)
       /\ UNCHANGED <<textVars, lifecycleVars, predictVars, evalVars>>
       /\ UNCHANGED <<categories, departments, now, pipeline, ret, calls>>
    \/ /\ \E t \in Threads : submit_insert_assignment(t)
       /\ UNCHANGED <<textVars, lifecycleVars, predictVars, evalVars>>
       /\ UNCHANGED <<categories, departments, now, pipeline, ret, calls>>
    \/ /\ \E t \in Threads : submit_return(t)
       /\ UNCHANGED <<textVars, lifecycleVars, predictVars, evalVars>>
       /\ UNCHANGED <<categories, departments, now, pipeline, ret, calls>>

SpecConc == InitConc /\ [][NextConc]_vars

(***************************************************************************)
(* SpecConcFault: SpecConc on a database whose calls may fail.             *)
(***************************************************************************)
\* the complaint deleted again when a later storage call fails
submit_storage_raises_rollback(t) ==
    /\ th[t].pc \in {"category", "complaint", "departments", "assignment"}
    /\ th' = [th EXCEPT ![t].pc = "raised"]
    /\ complaints' =
          IF th[t].complaint_id = <<Len(complaints)>>
              THEN SubSeq(complaints, 1, Len(complaints) - 1)
          ELSE complaints
    /\ UNCHANGED assignments

\* the storage call the thread is about to make raises sqlite3.Error: the
\* statement is not committed, submit_complaint has no handler, and the
\* error leaves it; what earlier calls committed stays
submit_storage_raises(t) ==
    /\ th[t].pc \in {"category", "complaint", "departments", "assignment"}
    /\ th' = [th EXCEPT ![t].pc = "raised"]
    /\ UNCHANGED <<complaints, assignments>>

NextConcFault ==
    \/ NextConc
    \/ /\ \E t \in Threads : submit_storage_raises(t)
       /\ UNCHANGED <<textVars, lifecycleVars, predictVars, evalVars>>
       /\ UNCHANGED <<categories, departments, now, pipeline, ret, calls>>

SpecConcFault == InitConc /\ [][NextConcFault]_vars

(***************************************************************************)
(* SpecPredict: predict on a fitted pipeline, the scores behind it kept.   *)
(* MultinomialNB gives every class a score for the text; predict returns   *)
(* classes_[argmax(scores)] and takes max(predict_proba) as confidence.    *)
(* classes_ holds the labels fit was given, sorted (numpy.unique), and     *)
(* argmax is the first index of the greatest score.                        *)
(***************************************************************************)
\* the scores a class can have for a text: 0..MaxScore
MaxScore == 1

\* the labels of the corpus in the order of the classifier's category list
classes_in_list_order == categories_list

\* the fitted MultinomialNB's classes_: the labels of the corpus, sorted
classes_ ==
    <<"Electricity", "Other", "Road Maintenance", "Sanitation", "Water Supply">>

\* max(...)
max_of(scores) ==
    CHOOSE v \in {scores[i] : i \in 1..Len(scores)} :
        \A i \in 1..Len(scores) : scores[i] <= v

\* numpy.argmax: the first index that holds the greatest value
argmax(scores) ==
    CHOOSE i \in 1..Len(scores) :
        /\ scores[i] = max_of(scores)
        /\ \A j \in 1..(i - 1) : scores[j] < scores[i]

\* the texts predict is called with: the empty text, a text of whitespace,
\* a digit and a punctuation mark, which preprocess_text empties, and a
\* description
PredictTexts ==
    { <<>>,
      <<" ", "1", "!">>,
      <<"P","i","p","e"," ","b","u","r","s","t","!">> }

\* the preprocessed text of each of them
preprocessed == [d \in PredictTexts |-> preprocess_text(d)]

\* the fitted models: a score of each class for each preprocessed text
ScoredModels ==
    [{preprocessed[d] : d \in PredictTexts} -> [1..Len(classes_) -> 0..MaxScore]]

\* pipeline.predict of the model with these scores
pipeline_predict(scores) == [t \in DOMAIN scores |-> classes_[argmax(scores[t])]]

\* `confidence = max(probabilities)`
predict_confidence(complaint_text) == max_of(posterior[preprocessed[complaint_text]])

\* a predict that keeps what it was asked: the model learns the text as one
\* more example of the category list's first label
call_predict_learning(complaint_text) ==
    /\ ret' = [ op         |-> "predict",
                text       |-> complaint_text,
                category   |-> predict(complaint_text),
                confidence |-> predict_confidence(complaint_text) ]
    /\ answers' = IF answers[complaint_text] = <<>>
                      THEN [answers EXCEPT ![complaint_text] =
                               <<[category |-> ret'.category, confidence |-> ret'.confidence]>>]
                  ELSE answers
    /\ pipeline' = <<[pipeline[1] EXCEPT ![preprocessed[complaint_text]] = categories_list[1]]>>
    /\ UNCHANGED <<posterior, model_file>>

\* a predict that refuses a text with nothing left after preprocessing
call_predict_reject_empty(complaint_text) ==
    /\ ret' = IF preprocessed[complaint_text] = <<>>
                  THEN [ op     |-> "predict",
                         text   |-> complaint_text,
                         raised |-> "ValueError: empty text" ]
              ELSE [ op         |-> "predict",
                     text       |-> complaint_text,
                     category   |-> predict(complaint_text),
                     confidence |-> predict_confidence(complaint_text) ]
    /\ UNCHANGED <<pipeline, posterior, model_file, answers>>

\* ComplaintClassifier.predict on the fitted pipeline: (category, confidence);
\* answers keeps the first result for each text
call_predict(complaint_text) ==
    /\ ret' = [ op         |-> "predict",
                text       |-> complaint_text,
                category   |-> predict(complaint_text),
                confidence |-> predict_confidence(complaint_text) ]
    /\ answers' = IF answers[complaint_text] = <<>>
                      THEN [answers EXCEPT ![complaint_text] =
                               <<[category |-> ret'.category, confidence |-> ret'.confidence]>>]
                  ELSE answers
    /\ UNCHANGED <<pipeline, posterior, model_file>>

InitPredict ==
    /\ InitService
    /\ InitNoText
    /\ InitNoEval
    /\ posterior \in ScoredModels
    /\ pipeline = <<pipeline_predict(posterior)>>
    /\ model_file = PickledModel(pipeline[1])
    /\ train_pc = "idle"
    /\ svc = "loaded"
    /\ answers = [d \in PredictTexts |-> <<>>]
    /\ th = <<>>

NextPredict ==
    /\ \E d \in PredictTexts : call_predict(d)
    /\ UNCHANGED <<textVars, dbVars, train_pc, svc, evalVars, th>>

SpecPredict == InitPredict /\ [][NextPredict]_vars

(***************************************************************************)
(* SpecModel: one ComplaintClassifier and the file at its model_path, from *)
(* the construction of the service on.  train runs line by line, and       *)
(* between two of its lines another thread may call predict on the same    *)
(* classifier and another process may call load_model on the same path.    *)
(* An unfitted Pipeline is the model that maps no text: <<>>.              *)
(***************************************************************************)
Fitted(p) == p # <<>> /\ DOMAIN p[1] # {}

Ready == svc \in {"loaded", "trained"}

\* ComplaintClassifier.load_model: what it raises and what it leaves in
\* self.pipeline; pickle.load of a file that is not written out raises EOFError
load_model ==
    IF model_file.bytes = "absent"
        THEN [raised |-> "FileNotFoundError", pipeline |-> pipeline]
    ELSE IF model_file.bytes = "partial"
        THEN [raised |-> "EOFError", pipeline |-> pipeline]
    ELSE [raised |-> "", pipeline |-> <<model_file.model>>]

\* the service constructed without training when the file is absent
service_init_load_only ==
    /\ svc = "none"
    /\ train_pc = "idle"
    /\ IF model_file.bytes # "absent"
           THEN /\ pipeline' = load_model.pipeline
                /\ svc' = IF load_model.raised = "" THEN "loaded" ELSE "failed"
       ELSE /\ svc' = "loaded"
            /\ pipeline' = pipeline
    /\ UNCHANGED <<train_pc, model_file, ret>>

\* ComplaintService.__init__: load_model when the file exists, else
\* train(save_model=True); an error of load_model leaves no service
service_init ==
    /\ svc = "none"
    /\ train_pc = "idle"
    /\ IF model_file.bytes # "absent"
           THEN /\ pipeline' = load_model.pipeline
                /\ svc' = IF load_model.raised = "" THEN "loaded" ELSE "failed"
                /\ train_pc' = train_pc
       ELSE /\ svc' = "training"
            /\ train_pc' = "called"
            /\ pipeline' = pipeline
    /\ UNCHANGED <<model_file, ret>>

\* train: `self.pipeline = Pipeline([...])`, not yet fitted
train_create ==
    /\ train_pc = "called"
    /\ pipeline' = << <<>> >>
    /\ train_pc' = "created"
    /\ UNCHANGED <<model_file, svc, ret>>

\* train: `self.pipeline.fit(X_train, y_train)`
train_fit ==
    /\ train_pc = "created"
    /\ \E m \in FittedModels : pipeline' = <<m>>
    /\ train_pc' = "fitted"
    /\ UNCHANGED <<model_file, svc, ret>>

\* train: `open(self.model_path, 'wb')` creates the file or empties it
train_open ==
    /\ train_pc = "fitted"
    /\ model_file' = PartialFile
    /\ train_pc' = "writing"
    /\ UNCHANGED <<pipeline, svc, ret>>

\* train: `pickle.dump(self.pipeline, f)` and the file closed; train returns,
\* and with it ComplaintService.__init__ when it was the caller
train_dump ==
    /\ train_pc = "writing"
    /\ model_file' = PickledModel(pipeline[1])
    /\ train_pc' = "idle"
    /\ svc' = IF svc = "training" THEN "trained" ELSE svc
    /\ UNCHANGED <<pipeline, ret>>

\* a classifier that trains itself when asked to predict without a model
classifier_predict_lazy_train(complaint_text) ==
    /\ IF pipeline = <<>>
           THEN /\ \E m \in FittedModels :
                      /\ pipeline' = <<m>>
                      /\ ret' = [ op       |-> "predict",
                                  raised   |-> "",
                                  category |-> <<m[preprocess_text(complaint_text)]>> ]
       ELSE /\ ret' = [ op       |-> "predict",
                        raised   |-> IF Fitted(pipeline) THEN "" ELSE "NotFittedError",
                        category |-> IF Fitted(pipeline) THEN <<predict(complaint_text)>>
                                     ELSE <<>> ]
            /\ pipeline' = pipeline
    /\ UNCHANGED <<model_file, train_pc, svc>>

\* ComplaintClassifier.predict called by a thread: ValueError when
\* self.pipeline is None, scikit-learn's NotFittedError when the pipeline is
\* not fitted, else the predicted category
classifier_predict(complaint_text) ==
    /\ ret' =
          IF pipeline = <<>>
              THEN [ op       |-> "predict",
                     raised   |-> "ValueError: Model not trained or loaded",
                     category |-> <<>> ]
          ELSE IF ~Fitted(pipeline)
              THEN [ op |-> "predict", raised |-> "NotFittedError", category |-> <<>> ]
          ELSE [ op       |-> "predict",
                 raised   |-> "",
                 category |-> <<predict(complaint_text)>> ]
    /\ UNCHANGED <<pipeline, model_file, train_pc, svc>>

\* load_model called by another process, on a classifier of its own with the
\* same model_path
other_load_model ==
    /\ ret' = [ op     |-> "load_model",
                raised |-> load_model.raised,
                bytes  |-> model_file.bytes ]
    /\ UNCHANGED <<pipeline, model_file, train_pc, svc>>

\* ComplaintClassifier.train called on the classifier of a constructed service
retrain ==
    /\ Ready
    /\ train_pc = "idle"
    /\ train_pc' = "called"
    /\ UNCHANGED <<pipeline, model_file, svc, ret>>

\* the file at model_path before the service is constructed: none, one cut
\* short by an interrupted write, or a model pickled by an earlier run
InitModel ==
    /\ InitService
    /\ InitNoText
    /\ InitNoEval
    /\ InitNoPredict
    /\ pipeline = <<>>
    /\ model_file \in {NoFile, PartialFile} \cup {PickledModel(m) : m \in FittedModels}
    /\ train_pc = "idle"
    /\ svc = "none"

NextModel ==
    \/ service_init /\ UNCHANGED <<textVars, dbVars, predictVars, evalVars, th>>
    \/ train_create /\ UNCHANGED <<textVars, dbVars, predictVars, evalVars, th>>
    \/ train_fit /\ UNCHANGED <<textVars, dbVars, predictVars, evalVars, th>>
    \/ train_open /\ UNCHANGED <<textVars, dbVars, predictVars, evalVars, th>>
    \/ train_dump /\ UNCHANGED <<textVars, dbVars, predictVars, evalVars, th>>
    \/ /\ \E d \in Descriptions : classifier_predict(d)
       /\ UNCHANGED <<textVars, dbVars, predictVars, evalVars, th>>
    \/ other_load_model /\ UNCHANGED <<textVars, dbVars, predictVars, evalVars, th>>

SpecModel == InitModel /\ [][NextModel]_vars

\* SpecRetrain: SpecModel, and train called again on the service's classifier
NextRetrain ==
    \/ NextModel
    \/ retrain /\ UNCHANGED <<textVars, dbVars, predictVars, evalVars, th>>

SpecRetrain == InitModel /\ [][NextRetrain]_vars

(***************************************************************************)
(* SpecSubmit: submit_complaint on a constructed service whose classifier  *)
(* may be in the middle of train.                                          *)
(***************************************************************************)
\* the classifier's error of a pipeline that cannot predict
predict_raises ==
    IF pipeline = <<>> THEN "ValueError: Model not trained or loaded"
    ELSE "NotFittedError"

\* the complaint stored, without a category, before it is classified
service_submit_store_first(description) ==
    /\ Ready
    /\ IF Fitted(pipeline)
           THEN submit_complaint(description)
       ELSE /\ complaints' =
                  Append(complaints, complaint_row(description, <<>>, "Medium"))
            /\ ret' = [op |-> "submit_complaint", raised |-> predict_raises]
            /\ UNCHANGED <<categories, departments, assignments, now, pipeline>>
    /\ UNCHANGED <<model_file, train_pc, svc>>

\* ComplaintService.submit_complaint called on the constructed service:
\* `self.classifier.predict(description)` is its first statement, and an
\* error of it leaves the method before any call on self.db
service_submit(description) ==
    /\ Ready
    /\ IF Fitted(pipeline)
           THEN submit_complaint(description)
       ELSE /\ ret' = [op |-> "submit_complaint", raised |-> predict_raises]
            /\ UNCHANGED <<categories, departments, complaints, assignments,
                           now, pipeline>>
    /\ UNCHANGED <<model_file, train_pc, svc>>

\* the description submitted while the classifier is retrained
SubmitTexts == { <<"P","i","p","e"," ","b","u","r","s","t","!">> }

NextSubmit ==
    \/ /\ service_init
       /\ UNCHANGED <<textVars, dbVars, predictVars, evalVars, th>>
    \/ /\ calls < MaxCalls
       /\ calls' = calls + 1
       /\ retrain
       /\ UNCHANGED <<textVars, predictVars, evalVars, th>>
       /\ UNCHANGED <<categories, departments, complaints, assignments, now>>
    \/ /\ train_create
       /\ UNCHANGED <<textVars, dbVars, predictVars, evalVars, th>>
    \/ /\ train_fit
       /\ UNCHANGED <<textVars, dbVars, predictVars, evalVars, th>>
    \/ /\ train_open
       /\ UNCHANGED <<textVars, dbVars, predictVars, evalVars, th>>
    \/ /\ train_dump
       /\ UNCHANGED <<textVars, dbVars, predictVars, evalVars, th>>
    \/ /\ calls < MaxCalls
       /\ calls' = calls + 1
       /\ seed_data
       /\ UNCHANGED <<textVars, lifecycleVars, predictVars, evalVars, th>>
    \/ /\ calls < MaxCalls
       /\ calls' = calls + 1
       /\ \E d \in SubmitTexts : service_submit(d)
       /\ UNCHANGED <<textVars, predictVars, evalVars, th>>

SpecSubmit == InitModel /\ [][NextSubmit]_vars

(***************************************************************************)
(* SpecRead: submissions and the department's list on a seeded database.   *)
(***************************************************************************)
\* the priorities sorted as text: High, Low, Medium
priority_rank_as_text(priority) ==
    CASE priority = "High"   -> 1
      [] priority = "Low"    -> 2
      [] priority = "Medium" -> 3

\* CASE c.priority WHEN 'High' THEN 1 WHEN 'Medium' THEN 2 WHEN 'Low' THEN 3 END
priority_rank(priority) ==
    CASE priority = "High"   -> 1
      [] priority = "Medium" -> 2
      [] priority = "Low"    -> 3

\* FROM complaints c LEFT JOIN assignments a ON c.complaint_id = a.complaint_id
\* WHERE a.department_id = ?: the complaint_id of one row for every pair of
\* a complaint and an assignment of it to the department
joined_complaint_ids(department_id) ==
    LET hits == SelectSeq([a \in 1..Len(assignments) |-> a],
                          LAMBDA a : /\ assignments[a].department_id = department_id
                                     /\ assignments[a].complaint_id \in 1..Len(complaints))
    IN [k \in 1..Len(hits) |-> assignments[hits[k]].complaint_id]

\* ORDER BY CASE c.priority ... END, c.created_at DESC
in_order(ids) ==
    \A i, j \in 1..Len(ids) :
        i < j =>
            LET a == complaints[ids[i]]
                b == complaints[ids[j]]
            IN \/ priority_rank(a.priority) < priority_rank(b.priority)
               \/ /\ priority_rank(a.priority) = priority_rank(b.priority)
                  /\ a.created_at >= b.created_at

\* ComplaintService.get_complaints_by_department: the rows in the order of
\* the ORDER BY, rows it leaves tied in any order
get_complaints_by_department(department_id) ==
    /\ LET joined == joined_complaint_ids(department_id)
           n      == Len(joined)
       IN \E perm \in [1..n -> 1..n] :
              /\ \A i, j \in 1..n : perm[i] = perm[j] => i = j
              /\ in_order([k \in 1..n |-> joined[perm[k]]])
              /\ ret' = [ op            |-> "get_complaints_by_department",
                          department_id |-> department_id,
                          rows          |-> [k \in 1..n |-> joined[perm[k]]] ]
    /\ UNCHANGED <<categories, departments, complaints, assignments, now, pipeline>>

\* initialize_schema and seed_data have run, once, and the service is
\* constructed
InitRead ==
    /\ categories = SeededCategories(1)
    /\ departments = SeededDepartments(1)
    /\ complaints = <<>>
    /\ assignments = <<>>
    /\ now = 0
    /\ ret = [op |-> "none"]
    /\ calls = 0
    /\ InitConstructed
    /\ svc = "loaded"
    /\ InitNoText
    /\ InitNoEval
    /\ InitNoPredict

NextRead ==
    \/ /\ calls < MaxCalls
       /\ calls' = calls + 1
       /\ \E d \in Descriptions : submit_complaint(d)
       /\ UNCHANGED <<textVars, lifecycleVars, predictVars, evalVars, th>>
    \/ /\ calls < MaxCalls
       /\ calls' = calls + 1
       /\ \E id \in 1..(Len(departments) + 1) : get_complaints_by_department(id)
       /\ UNCHANGED <<textVars, lifecycleVars, predictVars, evalVars, th>>
    \/ /\ calls < MaxCalls
       /\ calls' = calls + 1
       /\ Tick
       /\ UNCHANGED <<textVars, lifecycleVars, predictVars, evalVars, th>>

SpecRead == InitRead /\ [][NextRead]_vars

(***************************************************************************)
(* SpecEvaluate: train from the fitted pipeline to its confusion table.    *)
(* What the fitted pipeline predicts for a held-out example is any label   *)
(* it was trained on; the order of the held-out examples, which            *)
(* train_test_split shuffles, has no part in the table.                    *)
(***************************************************************************)
\* create_training_data: fifteen complaints under each label
ExamplesPerLabel == 15

\* the five runs of `labels`, in the order they are put together
label_runs ==
    <<"Water Supply", "Road Maintenance", "Electricity", "Sanitation", "Other">>

\* create_training_data's `labels`
corpus_labels ==
    [k \in 1..(Len(label_runs) * ExamplesPerLabel) |->
        label_runs[((k - 1) \div ExamplesPerLabel) + 1]]

\* train_test_split(test_size=0.2, stratify=labels): of the examples of each
\* label a fifth is held out
held_out(label) ==
    Cardinality({k \in 1..Len(corpus_labels) : corpus_labels[k] = label}) \div 5

RECURSIVE stratified(_)
stratified(runs) ==
    IF runs = <<>> THEN <<>>
    ELSE [k \in 1..held_out(Head(runs)) |-> Head(runs)] \o stratified(Tail(runs))

\* the labels of the held-out examples
y_test == stratified(label_runs)

\* how many held-out examples the fitted pipeline gets wrong
MaxErrors == 3

\* the table with a row and a column only for the categories predicted
confusion_matrix_predicted_only(y_true, predicted, labels_arg) ==
    LET present == SelectSeq(labels_arg,
                             LAMBDA c : \E k \in 1..Len(predicted) : predicted[k] = c)
    IN [i \in 1..Len(present) |->
          [j \in 1..Len(present) |->
              Cardinality({k \in 1..Len(y_true) :
                              /\ y_true[k] = present[i]
                              /\ predicted[k] = present[j]})]]

\* sklearn.metrics.confusion_matrix(y_true, y_pred, labels=...): entry i, j
\* counts the examples of label i predicted as label j, for the labels given
\* and in their order
confusion_matrix(y_true, predicted, labels_arg) ==
    [i \in 1..Len(labels_arg) |->
        [j \in 1..Len(labels_arg) |->
            Cardinality({k \in 1..Len(y_true) :
                            /\ y_true[k] = labels_arg[i]
                            /\ predicted[k] = labels_arg[j]})]]

\* train: `y_pred = self.pipeline.predict(X_test)`
train_predict ==
    /\ train_pc = "fitted"
    /\ y_pred = <<>>
    /\ \E wrong \in {w \in SUBSET (1..Len(y_test)) : Cardinality(w) <= MaxErrors} :
          \E f \in [wrong -> training_labels] :
              /\ \A k \in wrong : f[k] # y_test[k]
              /\ y_pred' = [k \in 1..Len(y_test) |->
                               IF k \in wrong THEN f[k] ELSE y_test[k]]
    /\ UNCHANGED <<cm, pipeline, model_file, train_pc, svc, ret>>

\* train: `cm = confusion_matrix(y_test, y_pred, labels=self.categories)`
train_confusion_matrix ==
    /\ train_pc = "fitted"
    /\ y_pred # <<>>
    /\ cm = <<>>
    /\ cm' = confusion_matrix(y_test, y_pred, categories_list)
    /\ UNCHANGED <<y_pred, pipeline, model_file, train_pc, svc, ret>>

\* the service under construction, no file at model_path, train past its
\* fit; which of the fitted models the pipeline is has no part in what follows
InitEvaluate ==
    /\ InitService
    /\ InitNoText
    /\ InitNoEval
    /\ InitNoPredict
    /\ pipeline = <<CHOOSE m \in FittedModels : TRUE>>
    /\ model_file = NoFile
    /\ train_pc = "fitted"
    /\ svc = "training"

NextEvaluate ==
    \/ /\ train_predict
       /\ UNCHANGED <<textVars, dbVars, predictVars, th>>
    \/ /\ train_confusion_matrix
       /\ UNCHANGED <<textVars, dbVars, predictVars, th>>

SpecEvaluate == InitEvaluate /\ [][NextEvaluate]_vars

(***************************************************************************)
(* Properties of the text functions, checked under SpecText.               *)
(***************************************************************************)
AsciiLetters == AsciiLower \cup AsciiUpper

KeywordOccurs(keywords, t) ==
    \E i \in 1..Len(keywords) : str_in(keywords[i], t)

\* C1: predict_priority is first-match on the lowercased raw text: High when
\* a high-list keyword is a substring of it (whatever the medium list finds),
\* Medium when none of the high list and one of the medium list is, Low when
\* no keyword of either list is.
C1_FirstMatchPolicy ==
    prio # <<>> =>
        LET t == str_lower(text) IN
        prio[1] = IF KeywordOccurs(high_priority_keywords, t) THEN "High"
                  ELSE IF KeywordOccurs(medium_priority_keywords, t) THEN "Medium"
                  ELSE "Low"

\* a text holding a keyword of each list has been given priority High
C1_Witness ==
    /\ prio = <<"High">>
    /\ KeywordOccurs(medium_priority_keywords, str_lower(text))

\* C2: preprocess_text is idempotent: preprocess_text(preprocess_text(x))
\* is preprocess_text(x).
C2_Idempotent ==
    renorm # <<>> => renorm[1] = norm[1]

\* a text that preprocess_text changes, to a text of two words, has been
\* preprocessed twice
C2_Witness ==
    /\ renorm # <<>>
    /\ norm[1] # text
    /\ Len(str_split(norm[1])) >= 2

\* only lowercase ASCII letters and single spaces, no space at either end
WellFormed(out) ==
    /\ \A i \in 1..Len(out) : out[i] \in AsciiLower \cup {" "}
    /\ out # <<>> => (out[1] # " " /\ out[Len(out)] # " ")
    /\ \A i \in 1..(Len(out) - 1) : ~(out[i] = " " /\ out[i + 1] = " ")

LettersOnly(s) == SelectSeq(s, LAMBDA c : c # " ")

\* the whitespace-separated runs of t that hold a character of the set keep
HoldingRuns(t, keep) ==
    SelectSeq(str_split(t), LAMBDA w : \E i \in 1..Len(w) : w[i] \in keep)

\* the characters whose lowercase holds an ASCII letter
LowercaseToAscii ==
    AsciiLetters \cup
    {c \in {"U+212A", "U+0130"} : \E i \in 1..Len(lower_char(c)) : lower_char(c)[i] \in AsciiLower}

\* C3 as stated: the result is well formed; every character of the input
\* that is neither an ASCII letter nor whitespace is deleted, no space put
\* in its place; an input without ASCII letters gives the empty string.
C3_AsStated ==
    norm # <<>> =>
        LET out == norm[1] IN
        /\ WellFormed(out)
        /\ LettersOnly(out) =
              str_lower(SelectSeq(text, LAMBDA c : c \in AsciiLetters))
        /\ Len(str_split(out)) = Len(HoldingRuns(text, AsciiLetters))

\* C3 amended: the result is well formed; it is the lowercased input with
\* every character that is then neither an ASCII letter nor whitespace
\* deleted, no space put in its place (so U+212A leaves "k" and U+0130
\* leaves "i"); an input none of whose characters lowercases to an ASCII
\* letter gives the empty string.
C3_LowercasedThenStripped ==
    norm # <<>> =>
        LET out == norm[1] IN
        /\ WellFormed(out)
        /\ LettersOnly(out) =
              SelectSeq(str_lower(text), LAMBDA c : c \in AsciiLower)
        /\ Len(str_split(out)) = Len(HoldingRuns(text, LowercaseToAscii))

\* a digit or punctuation mark between two letters has been deleted and the
\* letters joined into one word
C3_Witness ==
    /\ norm # <<>>
    /\ Len(str_split(norm[1])) = 1
    /\ \E i \in 2..(Len(text) - 1) :
          /\ text[i] \in {"1", "!"}
          /\ text[i - 1] \in AsciiLetters
          /\ text[i + 1] \in AsciiLetters

(***************************************************************************)
(* Properties of the service, checked under Spec.                          *)
(***************************************************************************)
PriorityLevels == {"High", "Medium", "Low"}

ComplaintIds == 1..Len(complaints)

\* C4: a submit_complaint that returned has stored the new complaint with
\* status Submitted and has returned Submitted as its status.
C4_SubmittedOnIntake ==
    ret.op = "submit_complaint" =>
        /\ ret.status = "Submitted"
        /\ ret.complaint_id = Len(complaints)
        /\ complaints[ret.complaint_id].status = "Submitted"

\* a second complaint, of priority Low and with no category resolved, has
\* just been submitted while the first has left Submitted
C4_Witness ==
    /\ ret.op = "submit_complaint"
    /\ ret.complaint_id = 2
    /\ ret.priority = "Low"
    /\ complaints[2].category_id = <<>>
    /\ complaints[1].status # "Submitted"

\* C5: the status of every stored complaint is one of Submitted, In Progress,
\* Resolved, Rejected, whatever new_status update_complaint_status is given.
C5_StatusInLifecycle ==
    \A id \in ComplaintIds : complaints[id].status \in Lifecycle

\* C6: for an existing complaint in any lifecycle state, Resolved and Rejected
\* included, and any other lifecycle state s, update_complaint_status(id, s)
\* can be taken, returns True and leaves the complaint in state s.
C6_UnconditionalTransitions ==
    \A id \in ComplaintIds :
        complaints[id].status \in Lifecycle =>
            \A s \in Lifecycle \ {complaints[id].status} :
                ENABLED ( /\ update_complaint_status(id, s)
                          /\ complaints'[id].status = s
                          /\ ret'.value = TRUE )

\* a complaint that an update has moved to the terminal state Resolved
C6_Witness ==
    /\ ret.op = "update_complaint_status"
    /\ \E id \in ComplaintIds : complaints[id].status = "Resolved"

\* C7: update_complaint_status(id, s) on a complaint already in state s can
\* be taken, returns True, and changes nothing but that complaint's
\* updated_at, which becomes the current time; the status is s after one
\* such call and so after any number of them.
C7_SameStateUpdate ==
    \A id \in ComplaintIds :
        ENABLED ( /\ update_complaint_status(id, complaints[id].status)
                  /\ complaints' = [complaints EXCEPT ![id].updated_at = now]
                  /\ ret'.value = TRUE
                  /\ UNCHANGED <<categories, departments, assignments>> )

\* three operations, a submission, a tick of the clock and an update, have
\* left the complaint Submitted with a later updated_at: the update was to
\* the state the complaint was in
C7_Witness ==
    /\ calls = 3
    /\ Len(complaints) = 1
    /\ ret.op = "update_complaint_status"
    /\ complaints[1].status = "Submitted"
    /\ complaints[1].updated_at > complaints[1].created_at

\* C8: no operation changes the stored category or priority of a complaint
\* that has been submitted.
C8_CategoryPriorityFixed ==
    [][ \A id \in ComplaintIds :
            /\ id \in 1..Len(complaints')
            /\ complaints'[id].category_id = complaints[id].category_id
            /\ complaints'[id].priority = complaints[id].priority ]_vars

\* the first complaint has been updated, a second one submitted, and a
\* complaint read back
C8_Witness ==
    /\ Len(complaints) = 2
    /\ complaints[1].status # "Submitted"
    /\ ret.op = "get_complaint_details"

\* C9 as stated: every stored complaint has a non-null category and a
\* priority among High, Medium, Low.
C9_AsStated ==
    \A id \in ComplaintIds :
        /\ complaints[id].category_id # <<>>
        /\ complaints[id].priority \in PriorityLevels

\* C9 amended: every stored complaint has a priority among High, Medium, Low
\* and a category that is NULL or the key of a categories row; a submission
\* stores the key of the row named as the predicted category when there is
\* one, and NULL when there is none.
C9_PriorityAlwaysCategoryIfResolved ==
    /\ [] \A id \in ComplaintIds :
            /\ complaints[id].priority \in PriorityLevels
            /\ Len(complaints[id].category_id) <= 1
            /\ \A i \in 1..Len(complaints[id].category_id) :
                   complaints[id].category_id[i] \in 1..Len(categories)
    /\ [][ Len(complaints') = Len(complaints) + 1 =>
              LET c == complaints'[Len(complaints')] IN
              IF \E i \in 1..Len(categories) : categories[i] = ret'.category
                  THEN /\ c.category_id # <<>>
                       /\ categories[c.category_id[1]] = ret'.category
              ELSE c.category_id = <<>> ]_vars

\* one complaint stored with no category, before the seed, and one stored
\* with a category, after it
C9_Witness ==
    /\ Len(complaints) = 2
    /\ complaints[1].category_id = <<>>
    /\ complaints[2].category_id # <<>>

\* C10: a complaint has at most one assignment row; every assignment row
\* names a complaint and a department that exist; no operation changes or
\* removes an assignment row, and a row that is added is for a complaint
\* submitted by that operation.
C10_Assignments ==
    /\ [] /\ \A i, j \in 1..Len(assignments) :
                assignments[i].complaint_id = assignments[j].complaint_id => i = j
          /\ \A i \in 1..Len(assignments) :
                /\ assignments[i].complaint_id \in ComplaintIds
                /\ assignments[i].department_id \in 1..Len(departments)
    /\ [][ /\ Len(assignments') >= Len(assignments)
           /\ \A i \in 1..Len(assignments) : assignments'[i] = assignments[i]
           /\ \A i \in (Len(assignments) + 1)..Len(assignments') :
                 assignments'[i].complaint_id \notin ComplaintIds ]_vars

\* two complaints hold an assignment each and one of them has been updated
C10_Witness ==
    /\ Len(assignments) = 2
    /\ ret.op = "update_complaint_status"
    /\ \E id \in ComplaintIds : complaints[id].status = "In Progress"

\* a step of Spec that is a call of submit_complaint
SubmitStep ==
    /\ calls' = calls + 1
    /\ ret'.op = "submit_complaint"
    /\ now' = now
    /\ departments' = departments

\* the departments configured for the category of that name
ConfiguredDepartments(name) ==
    {i \in 1..Len(departments) :
        \E k \in 1..Len(categories) :
            /\ categories[k] = name
            /\ departments[i].category_id = <<k>>}

\* C11: a submit_complaint whose inferred category has a configured
\* department adds exactly one assignment row, linking the new complaint to
\* a department of that category; one whose category has none adds no
\* assignment row; either way the complaint is stored and its id returned.
C11_RoutingTotal ==
    [][ SubmitStep =>
           LET id == Len(complaints) + 1
               configured == ConfiguredDepartments(ret'.category)
           IN /\ Len(complaints') = id
              /\ ret'.complaint_id = id
              /\ IF configured # {}
                     THEN /\ Len(assignments') = Len(assignments) + 1
                          /\ SubSeq(assignments', 1, Len(assignments)) = assignments
                          /\ assignments'[Len(assignments')].complaint_id = id
                          /\ assignments'[Len(assignments')].department_id \in configured
                 ELSE assignments' = assignments ]_vars

\* a complaint submitted when no department was configured holds no
\* assignment, the next one, submitted after the seed, has just been given
\* one
C11_Witness ==
    /\ ret.op = "submit_complaint"
    /\ Len(complaints) = 2
    /\ Len(assignments) = 1
    /\ assignments[1].complaint_id = 2
    /\ departments[assignments[1].department_id].category_id = complaints[2].category_id

\* C12: a submit_complaint whose predicted category names no categories row
\* stores the complaint with a NULL category and status Submitted, adds no
\* assignment row and returns the new complaint's id.
C12_UnresolvableCategory ==
    [][ ( /\ SubmitStep
          /\ \A k \in 1..Len(categories) : categories[k] # ret'.category ) =>
           /\ Len(complaints') = Len(complaints) + 1
           /\ SubSeq(complaints', 1, Len(complaints)) = complaints
           /\ complaints'[Len(complaints')].category_id = <<>>
           /\ complaints'[Len(complaints')].status = "Submitted"
           /\ assignments' = assignments
           /\ DOMAIN ret' = {"op", "complaint_id", "category", "priority", "status"}
           /\ ret'.complaint_id = Len(complaints') ]_vars

\* the only operation so far, a submission on a database without categories,
\* returned the id of a complaint stored without a category
C12_Witness ==
    /\ calls = 1
    /\ categories = <<>>
    /\ ret.op = "submit_complaint"
    /\ ret.complaint_id = 1
    /\ complaints[1].category_id = <<>>
    /\ assignments = <<>>

\* C19: the labels of the training corpus are exactly the names of the
\* classifier's category list; each of them is the name of a categories row
\* once seed_data has run; and every category a submission returns is one
\* of them.
C19_OutputSpaceIsCategorySet ==
    /\ training_labels = CategoryNames
    /\ departments # <<>> =>
          \A l \in training_labels : \E k \in 1..Len(categories) : categories[k] = l
    /\ ret.op = "submit_complaint" => ret.category \in CategoryNames

\* a submission after the seed returned a category that a categories row
\* names, and the complaint holds that row's key
C19_Witness ==
    /\ ret.op = "submit_complaint"
    /\ departments # <<>>
    /\ complaints[ret.complaint_id].category_id # <<>>
    /\ categories[complaints[ret.complaint_id].category_id[1]] = ret.category

(***************************************************************************)
(* Properties of the classifier's model, checked under SpecModel and       *)
(* SpecRetrain.                                                            *)
(***************************************************************************)
\* C13: predict on a classifier that has neither been trained nor loaded
\* fails with the model-not-ready error, which the code raises as
\* ValueError("Model not trained or loaded"); it returns no category and
\* leaves the classifier and the model file as they were.
C13_PredictBeforeModel ==
    [][ \A d \in Descriptions :
           (pipeline = <<>> /\ classifier_predict(d)) =>
               /\ ret'.raised = "ValueError: Model not trained or loaded"
               /\ ret'.category = <<>>
               /\ pipeline' = <<>>
               /\ model_file' = model_file ]_vars

\* predict has raised the error on a classifier without a model, before the
\* service was constructed
C13_Witness ==
    /\ pipeline = <<>>
    /\ svc = "none"
    /\ ret.op = "predict"
    /\ ret.raised = "ValueError: Model not trained or loaded"
    /\ ret.category = <<>>

\* C14: while train runs again on the classifier of a constructed service, a
\* predict on that classifier and a load_model of the same model_path meet
\* the old model or the new one, whole: never a pipeline that is not fitted,
\* never a file that is not written out.
C14_AtomicPublication ==
    [][ (Ready /\ train_pc # "idle" /\ train_pc' = train_pc /\ ret' # ret) =>
            ret'.raised \notin {"NotFittedError", "EOFError"} ]_vars

\* C15: a service constructed when no file exists at model_path trains a
\* model and saves it, without an error; once the constructor has returned
\* the classifier holds a fitted model, the file holds a pickled model, and
\* predict raises no error.
C15_ConstructionRecovers ==
    /\ [] (Ready => Fitted(pipeline) /\ model_file.bytes = "complete")
    /\ [][ (svc = "none" /\ model_file = NoFile /\ svc' # svc) =>
               (svc' = "training" /\ train_pc' = "called") ]_vars
    /\ [][ (svc = "training" /\ svc' # svc) =>
               /\ svc' = "trained"
               /\ Fitted(pipeline')
               /\ model_file' = PickledModel(pipeline'[1]) ]_vars
    /\ [][ (Ready /\ ret' # ret /\ ret'.op = "predict") => ret'.raised = "" ]_vars

\* the service was constructed without a file, and a predict after the
\* constructor returned gave a category
C15_Witness ==
    /\ svc = "trained"
    /\ ret.op = "predict"
    /\ ret.raised = ""
    /\ ret.category # <<>>
    /\ model_file = PickledModel(pipeline[1])

(***************************************************************************)
(* Properties of the service on a failing database, checked under          *)
(* SpecFault.                                                              *)
(***************************************************************************)
\* C16: an error the database raises during submit_complaint or
\* update_complaint_status leaves the call as an error: the call does not
\* return a value in its place.
C16_StorageErrorsPropagate ==
    [][ /\ \A d \in Descriptions, k \in StorageCalls :
              submit_complaint_storage_error(d, k) => "raised" \in DOMAIN ret'
        /\ \A id \in 1..(Len(complaints)+1), s \in StatusArgs :
              update_complaint_status_storage_error(id, s) => "raised" \in DOMAIN ret' ]_vars

(***************************************************************************)
(* Properties of two concurrent submissions, checked under SpecConc.       *)
(***************************************************************************)
BothReturned == \A t \in Threads : th[t].pc = "done"

\* a complaint row without its timestamps
ComplaintFields(row) ==
    [ description |-> row.description,
      category_id |-> row.category_id,
      priority    |-> row.priority,
      status      |-> row.status ]

\* an assignment row without its timestamp
AssignmentFields(row) ==
    [complaint_id |-> row.complaint_id, department_id |-> row.department_id]

\* the rows one submit_complaint(description) stores when it runs alone and
\* its complaint gets the key id
AloneComplaint(description) ==
    LET category_name == predict(description) IN
    [ description |-> description,
      category_id |-> stored_category_id(select_category_ids(category_name)),
      priority    |-> predict_priority(description, category_name),
      status      |-> "Submitted" ]

AloneAssignments(description, id) ==
    LET depts == assigned_departments(AloneComplaint(description).category_id) IN
    [i \in 1..Len(depts) |-> [complaint_id |-> id, department_id |-> depts[i]]]

\* the tables, timestamps left out, after the two calls have run one after
\* the other, thread first before thread second
SerialComplaints(first, second) ==
    <<AloneComplaint(th[first].description), AloneComplaint(th[second].description)>>

SerialAssignments(first, second) ==
    AloneAssignments(th[first].description, 1) \o AloneAssignments(th[second].description, 2)

Range(f) == {f[i] : i \in DOMAIN f}

\* each call returned the key of the complaint it inserted, and every
\* assignment row links a thread's complaint to the one department found for
\* that complaint's category
OwnIdsOwnDepartments ==
    /\ th[1].complaint_id # th[2].complaint_id
    /\ \A t \in Threads :
          LET id == th[t].result[1].complaint_id IN
          /\ <<id>> = th[t].complaint_id
          /\ ComplaintFields(complaints[id]) = AloneComplaint(th[t].description)
          /\ {AssignmentFields(assignments[i]) :
                 i \in {j \in 1..Len(assignments) : assignments[j].complaint_id = id}}
             = Range(AloneAssignments(th[t].description, id))
    /\ Len(assignments) =
          Cardinality({t \in Threads : AloneAssignments(th[t].description, 1) # <<>>})

\* C17 as stated: when both calls have returned, each has returned the key
\* of its own complaint, each assignment links a complaint to a department
\* of its own category, and the tables are those of the two calls run one
\* after the other in some order.
C17_AsStated ==
    BothReturned =>
        /\ OwnIdsOwnDepartments
        /\ \E first \in Threads : \E second \in Threads \ {first} :
              /\ [i \in 1..Len(complaints) |-> ComplaintFields(complaints[i])]
                    = SerialComplaints(first, second)
              /\ [i \in 1..Len(assignments) |-> AssignmentFields(assignments[i])]
                    = SerialAssignments(first, second)

\* C17 amended: as stated, but the assignments table is that of a serial
\* order only as a set of (complaint, department) pairs: the keys of the
\* two assignment rows may be in the other order than the keys of their
\* complaints.  Timestamps are left out of the comparison.
C17_SerialUpToAssignmentKeys ==
    BothReturned =>
        /\ OwnIdsOwnDepartments
        /\ \E first \in Threads : \E second \in Threads \ {first} :
              /\ [i \in 1..Len(complaints) |-> ComplaintFields(complaints[i])]
                    = SerialComplaints(first, second)
              /\ {AssignmentFields(assignments[i]) : i \in 1..Len(assignments)}
                    = Range(SerialAssignments(first, second))

\* both calls have returned, with different categories, and the thread that
\* inserted its complaint first inserted its assignment last
C17_Witness ==
    /\ BothReturned
    /\ Len(assignments) = 2
    /\ assignments[1].complaint_id = 2
    /\ assignments[2].complaint_id = 1
    /\ th[1].category # th[2].category

(***************************************************************************)
(* Properties of predict, checked under SpecPredict.                       *)
(***************************************************************************)
\* the labels whose score for the text is the greatest
Tied(complaint_text) ==
    LET scores == posterior[preprocessed[complaint_text]] IN
    {classes_[i] : i \in {j \in 1..Len(classes_) : scores[j] = max_of(scores)}}

\* the element of the set that comes first in the sequence
EarliestIn(order, labels) ==
    order[CHOOSE i \in 1..Len(order) :
              /\ order[i] \in labels
              /\ \A j \in 1..(i - 1) : order[j] \notin labels]

\* C18 as stated: when several categories tie for the greatest score,
\* predict returns the tied category that is earliest in the classifier's
\* category list (Water Supply, Road Maintenance, Electricity, Sanitation,
\* Other).
C18_AsStated ==
    ret.op = "predict" =>
        ret.category = EarliestIn(categories_list, Tied(ret.text))

\* C18 amended: when several categories tie for the greatest score, predict
\* returns the tied category that is earliest in the sorted order of the
\* labels (Electricity, Other, Road Maintenance, Sanitation, Water Supply).
C18_TieToFirstSortedLabel ==
    ret.op = "predict" =>
        ret.category =
            EarliestIn(<<"Electricity", "Other", "Road Maintenance", "Sanitation",
                         "Water Supply">>, Tied(ret.text))

\* predict has returned Electricity for a text on which all five categories
\* tie
C18_Witness ==
    /\ ret.op = "predict"
    /\ Cardinality(Tied(ret.text)) = 5
    /\ ret.category = "Electricity"

\* C20: predict changes neither the fitted model nor the model file, and a
\* call returns the category and confidence that the first call for the same
\* text returned, whatever calls for other texts came between.
C20_DeterministicReadOnly ==
    /\ [] (ret.op = "predict" =>
              /\ answers[ret.text] # <<>>
              /\ ret.category = answers[ret.text][1].category
              /\ ret.confidence = answers[ret.text][1].confidence)
    /\ [][pipeline' = pipeline /\ posterior' = posterior /\ model_file' = model_file]_vars

\* every text has been predicted, and the last call returned another
\* category than a call for another text
C20_Witness ==
    /\ \A d \in PredictTexts : answers[d] # <<>>
    /\ ret.op = "predict"
    /\ \E d \in PredictTexts : answers[d][1].category # ret.category

C24_OneDepartmentPerCategory ==
    \A k \in 1..Len(categories) :
        Cardinality(ConfiguredDepartments(categories[k])) <= 1

\* C25: a step that changes a stored complaint is update_complaint_status
\* called with that complaint's id; it changes the status and updated_at of
\* that complaint and no field of any other.  The clock, seed_data,
\* submit_complaint and get_complaint_details change no stored complaint.
C25_StatusChangesOnlyByOwnUpdate ==
    [][ /\ Len(complaints') >= Len(complaints)
        /\ \A id \in ComplaintIds :
              complaints'[id] # complaints[id] =>
                 /\ \E s \in StatusArgs : update_complaint_status(id, s)
                 /\ complaints'[id] =
                       [complaints[id] EXCEPT !.status = complaints'[id].status,
                                              !.updated_at = now]
                 /\ \A other \in ComplaintIds \ {id} :
                       complaints'[other] = complaints[other] ]_vars

\* of two stored complaints the first has been rejected by an update, after
\* the clock moved, and the second is as it was submitted
C25_Witness ==
    /\ Len(complaints) = 2
    /\ ret.op = "update_complaint_status"
    /\ complaints[1].status = "Rejected"
    /\ complaints[1].updated_at > complaints[1].created_at
    /\ complaints[2].status = "Submitted"
    /\ complaints[2].updated_at = complaints[2].created_at

\* a step of Spec that is get_complaint_details(id) finding the complaint
DetailsOf(id) ==
    /\ calls' = calls + 1
    /\ ret'.op = "get_complaint_details"
    /\ "complaint_id" \in DOMAIN ret'
    /\ ret'.complaint_id = id

\* C27 as stated: get_complaint_details called for the complaint that the
\* last operation, a submit_complaint, returned reports the category,
\* priority and status that submit_complaint returned.
C27_AsStated ==
    [][ (ret.op = "submit_complaint" /\ DetailsOf(ret.complaint_id)) =>
           /\ ret'.category = <<ret.category>>
           /\ ret'.priority = ret.priority
           /\ ret'.status = ret.status ]_calls

\* C27 amended: it reports the priority and status that submit_complaint
\* returned, and the category it returned when the complaint was stored
\* with a category; when no categories row had the predicted name it
\* reports no category (None), while submit_complaint returned the name.
C27_DetailsMatchWhenResolved ==
    [][ (ret.op = "submit_complaint" /\ DetailsOf(ret.complaint_id)) =>
           /\ ret'.category =
                 IF complaints[ret.complaint_id].category_id # <<>>
                     THEN <<ret.category>> ELSE <<>>
           /\ complaints[ret.complaint_id].category_id # <<>>
                 <=> (\E k \in 1..Len(categories) : categories[k] = ret.category
                         /\ complaints[ret.complaint_id].category_id = <<k>>)
           /\ ret'.priority = ret.priority
           /\ ret'.status = ret.status ]_calls

\* a submission on a database without categories, and then the details of
\* its complaint read back without a category
C27_Witness ==
    /\ calls = 2
    /\ categories = <<>>
    /\ ret.op = "get_complaint_details"
    /\ DOMAIN ret # {"op", "value"}
    /\ ret.complaint_id = 1
    /\ ret.category = <<>>
    /\ ret.status = "Submitted"

\* C29: update_complaint_status called with an id that no stored complaint
\* has changes no row, adds none and returns True.
C29_UpdateOfMissingComplaint ==
    [][ \A s \in StatusArgs :
           update_complaint_status(Len(complaints) + 1, s) =>
               /\ complaints' = complaints
               /\ assignments' = assignments
               /\ ret'.value = TRUE ]_vars

\* the only operation so far, an update on a database without complaints,
\* returned True
C29_Witness ==
    /\ calls = 1
    /\ complaints = <<>>
    /\ ret.op = "update_complaint_status"
    /\ ret.value = TRUE

\* C21: for the empty text, and for a text that preprocess_text empties,
\* predict on a fitted pipeline can be called and returns a category of the
\* category list with a confidence; it raises nothing.
C21_EmptyTextPredicted ==
    /\ \A d \in PredictTexts :
          preprocessed[d] = <<>> =>
              ENABLED ( /\ call_predict(d)
                        /\ "category" \in DOMAIN ret'
                        /\ ret'.category \in CategoryNames )
    /\ (ret.op = "predict" /\ preprocessed[ret.text] = <<>>) =>
          /\ DOMAIN ret = {"op", "text", "category", "confidence"}
          /\ ret.category \in CategoryNames
          /\ ret.confidence \in 0..MaxScore

\* predict has returned a category for the text " 1!", whose preprocessed
\* text is empty, after it had returned one for the empty text
C21_Witness ==
    /\ ret.op = "predict"
    /\ ret.text = <<" ", "1", "!">>
    /\ preprocessed[ret.text] = <<>>
    /\ answers[<<>>] # <<>>
    /\ ret.category = answers[<<>>][1].category

(***************************************************************************)
(* Properties of submissions on a failing database, checked under          *)
(* SpecConcFault.                                                          *)
(***************************************************************************)
\* the complaint is stored as submitted, with a category, and no assignment
\* row names it
StoredUnassigned(id) ==
    /\ id \in ComplaintIds
    /\ complaints[id].status = "Submitted"
    /\ complaints[id].category_id # <<>>
    /\ \A i \in 1..Len(assignments) : assignments[i].complaint_id # id

\* C28: between the commit of its complaint and the commit of its
\* assignment a submit_complaint leaves, for every reader, a stored
\* complaint with a category and without an assignment; when the department
\* query or the INSERT of the assignment raises, the call ends in the error
\* with no result, changes no table, and the complaint stays as it is,
\* Submitted and without an assignment.
C28_ComplaintCommittedFirst ==
    /\ [] \A t \in Threads :
            /\ th[t].pc \in {"departments", "assignment"} =>
                  StoredUnassigned(th[t].complaint_id[1])
            /\ (th[t].pc = "raised" /\ th[t].complaint_id # <<>>) =>
                  /\ StoredUnassigned(th[t].complaint_id[1])
                  /\ th[t].result = <<>>
    /\ [][ \A t \in Threads :
              (th[t].pc # "raised" /\ th'[t].pc = "raised") =>
                  /\ complaints' = complaints
                  /\ assignments' = assignments ]_vars

\* one call has ended in the error of its assignment INSERT, its complaint
\* stored without an assignment, while the other call is between its two
\* commits
C28_Witness ==
    /\ th[1].pc = "raised"
    /\ th[1].depts # <<>>
    /\ StoredUnassigned(th[1].complaint_id[1])
    /\ th[2].pc = "assignment"
    /\ StoredUnassigned(th[2].complaint_id[1])

(***************************************************************************)
(* Properties of submit_complaint on a classifier that cannot predict,     *)
(* checked under SpecSubmit.                                               *)
(***************************************************************************)
\* C30: a submit_complaint whose classification raises, the classifier's
\* pipeline being absent or not fitted, inserts no complaint and no
\* assignment: every table is after the call what it was before it.
C30_FailedClassificationStoresNothing ==
    [][ \A d \in SubmitTexts :
           (service_submit(d) /\ ~Fitted(pipeline)) =>
               /\ "raised" \in DOMAIN ret'
               /\ ret'.raised = "NotFittedError"
               /\ complaints' = complaints
               /\ assignments' = assignments
               /\ categories' = categories
               /\ departments' = departments ]_vars

\* a submission has raised NotFittedError while train had created its new
\* pipeline and not fitted it, after an earlier submission was stored and
\* assigned
C30_Witness ==
    /\ calls = 4
    /\ train_pc = "created"
    /\ ret = [op |-> "submit_complaint", raised |-> "NotFittedError"]
    /\ Len(complaints) = 1
    /\ Len(assignments) = 1

(***************************************************************************)
(* Properties of the department's list, checked under SpecRead.            *)
(***************************************************************************)
DepartmentListOf(d) ==
    /\ calls' = calls + 1
    /\ ret'.op = "get_complaints_by_department"
    /\ ret'.department_id = d

AssignedTo(d) ==
    { id \in ComplaintIds :
         \E a \in 1..Len(assignments) :
             /\ assignments[a].complaint_id = id
             /\ assignments[a].department_id = d }

\* C26: get_complaints_by_department(d) returns the complaints assigned to
\* department d and no other, each of them once, every High complaint before
\* every Medium one and every Medium one before every Low one, and of two
\* complaints of one priority the one created later first.
C26_DepartmentListOrdered ==
    [][ \A d \in 1..(Len(departments) + 1) :
           DepartmentListOf(d) =>
               LET rows == ret'.rows IN
               /\ {rows[k] : k \in 1..Len(rows)} = AssignedTo(d)
               /\ Len(rows) = Cardinality(AssignedTo(d))
               /\ \A i, j \in 1..Len(rows) :
                     i < j =>
                        LET first  == complaints[rows[i]]
                            second == complaints[rows[j]]
                        IN /\ second.priority = "High" => first.priority = "High"
                           /\ second.priority = "Medium" => first.priority # "Low"
                           /\ first.priority = second.priority =>
                                 first.created_at >= second.created_at
               /\ complaints' = complaints
               /\ assignments' = assignments ]_calls

\* the list of a department has a Medium complaint, the first submitted,
\* after a High one submitted a second later
C26_Witness ==
    /\ ret.op = "get_complaints_by_department"
    /\ ret.rows = <<2, 1>>
    /\ complaints[1].priority = "Medium"
    /\ complaints[2].priority = "High"
    /\ complaints[2].created_at > complaints[1].created_at

\* the list of a department has two complaints of one priority, the later
\* one first
C26_WitnessNewestFirst ==
    /\ ret.op = "get_complaints_by_department"
    /\ ret.rows = <<2, 1>>
    /\ complaints[1].priority = complaints[2].priority
    /\ complaints[2].created_at > complaints[1].created_at

(***************************************************************************)
(* Properties of the corpus and of train's evaluation, checked under       *)
(* SpecEvaluate.                                                           *)
(***************************************************************************)
\* C23: every category of the classifier's list labels at least one example
\* of the training corpus, and the confusion table train makes has one row
\* and one column for every category of the list, in the list's order, entry
\* i, j counting the held-out examples of category i predicted as category j,
\* whether or not any of them is predicted as a category.
C23_CoverageAndFullTable ==
    /\ \A c \in CategoryNames :
          \E k \in 1..Len(corpus_labels) : corpus_labels[k] = c
    /\ cm # <<>> =>
          /\ DOMAIN cm = 1..Len(categories_list)
          /\ \A i \in 1..Len(categories_list) :
                DOMAIN cm[i] = 1..Len(categories_list)
          /\ \A i, j \in 1..Len(categories_list) :
                cm[i][j] =
                    Cardinality({k \in 1..Len(y_test) :
                                    /\ y_test[k] = categories_list[i]
                                    /\ y_pred[k] = categories_list[j]})

\* the table is made while no held-out example is predicted to be of the
\* fifth category: its column holds zeros and its row the three examples
C23_Witness ==
    /\ cm # <<>>
    /\ \A k \in 1..Len(y_pred) : y_pred[k] # categories_list[5]
    /\ Len(cm) = 5
    /\ \A i \in 1..5 : cm[i][5] = 0
    /\ cm[5][1] = 3

====
